---- MODULE Spec2Model ----
(***************************************************************************)
(* Model of the RGB-D variational autoencoder trainers.                    *)
(*                                                                         *)
(*   rgbd_pvae_train.py  the driver loop (train / evaluate / instability   *)
(*                       check / best-loss checkpoint / visualization),    *)
(*                       its Encoder, Decoder and VAE.model / VAE.guide.   *)
(*   rgbd_vae.py         the residual Encoder, Decoder and VAE.model /     *)
(*                       VAE.guide of the earlier variant.                 *)
(*                                                                         *)
(* Spec     is the driver loop of rgbd_pvae_train.py.  The data loader     *)
(*          (nyu_dataloader), Pyro's SVI and the file system are the       *)
(*          environment: they supply the minibatch counts, the loss of     *)
(*          every svi.step / svi.evaluate_loss call and the outcome of     *)
(*          every write.                                                   *)
(* SpecNet  applies the networks of both files layer by layer to tensors   *)
(*          of a given shape, and VAE.model / VAE.guide on top of them.    *)
(***************************************************************************)
EXTENDS Integers, Sequences, FiniteSets, TLC

VARIABLES
    cuda_available,          \* torch.cuda.is_available()
    train_loader,            \* [batches, dataset_len] of the training split
    test_loader,             \* [batches, dataset_len] of the held-out split
    epoch,                   \* loop variable of `for epoch in range(NUM_EPOCHS)`
    pc,                      \* position of the driver inside the loop body
    vae_mode,                \* "train" / "eval": nn.Module.training of vae
    param_updates,           \* number of optimizer updates applied to the weights
    optim_steps,             \* Adam's step count (its per-parameter state)
    num_batches_tracked,     \* BatchNorm2d running-statistics buffer updates
    best,                    \* lowest evaluation loss seen (line 150)
    total_epoch_loss_train,  \* value returned by the last train()
    total_epoch_loss_test,   \* value returned by the last evaluate()
    test_elbo,               \* list of negated evaluation losses (line 147)
    optimizer_file,          \* rgbd_pvae_optimizer_state.save
    weights_file,            \* rgbd_pvae_torch_weights.save
    net                      \* SpecNet: the tensor travelling through a network

driver_vars == <<cuda_available, train_loader, test_loader, epoch, pc, vae_mode,
                 param_updates, optim_steps, num_batches_tracked, best,
                 total_epoch_loss_train, total_epoch_loss_test, test_elbo,
                 optimizer_file, weights_file>>

vars == <<cuda_available, train_loader, test_loader, epoch, pc, vae_mode,
          param_updates, optim_steps, num_batches_tracked, best,
          total_epoch_loss_train, total_epoch_loss_test, test_elbo,
          optimizer_file, weights_file, net>>

(***************************************************************************)
(* Bounds of the model.                                                    *)
(***************************************************************************)
MaxEpoch == 11      \* epochs 0 .. MaxEpoch-1 are explored
MaxBatches == 2     \* minibatches per loader: 1 .. MaxBatches
MaxLoss == 2        \* finite per-minibatch losses: -MaxLoss .. MaxLoss
MaxN == 2           \* batch sizes of the tensors fed to the networks

(***************************************************************************)
(* Program constants.                                                      *)
(***************************************************************************)
NUM_EPOCHS == 300
TEST_FREQUENCY == 5
BATCH_SIZE == 50

(***************************************************************************)
(* Python floats: NaN, the two infinities and finite values.  A finite     *)
(* value is kept as the exact quotient num/den (den > 0), so that          *)
(* `test_loss / len(dataset)` is a division and not a rounding.            *)
(***************************************************************************)
Fin(n, d) == [k |-> "fin", num |-> n, den |-> d]
NaN == [k |-> "nan", num |-> 0, den |-> 1]
PInf == [k |-> "pinf", num |-> 0, den |-> 1]
NInf == [k |-> "ninf", num |-> 0, den |-> 1]

\* a < b on floats: every comparison with NaN is False
FLt(a, b) ==
    CASE a.k = "nan" \/ b.k = "nan" -> FALSE
      [] a.k = "ninf" -> b.k # "ninf"
      [] a.k = "pinf" -> FALSE
      [] OTHER -> \/ b.k = "pinf"
                  \/ b.k = "fin" /\ a.num * b.den < b.num * a.den

\* a + b on floats
FAdd(a, b) ==
    CASE a.k = "nan" \/ b.k = "nan" -> NaN
      [] a.k = "pinf" -> IF b.k = "ninf" THEN NaN ELSE PInf
      [] a.k = "ninf" -> IF b.k = "pinf" THEN NaN ELSE NInf
      [] b.k # "fin" -> b
      [] OTHER -> Fin(a.num * b.den + b.num * a.den, a.den * b.den)

\* a / n for an integer n > 0
FDiv(a, n) == IF a.k = "fin" THEN Fin(a.num, a.den * n) ELSE a

\* -a
FNeg(a) ==
    CASE a.k = "fin" -> Fin(0 - a.num, a.den)
      [] a.k = "pinf" -> NInf
      [] a.k = "ninf" -> PInf
      [] OTHER -> a

\* losses one svi.evaluate_loss call can return
EvalLosses == {NaN, PInf, NInf} \cup {Fin(v, 1) : v \in (0 - MaxLoss)..MaxLoss}
\* losses one svi.step call returns
StepLosses == {Fin(v, 1) : v \in 1..2}

\* a loader over `b` full minibatches
Loader(b) == [batches |-> b, dataset_len |-> b * BATCH_SIZE]

NoFile == [present |-> FALSE]

(***************************************************************************)
(* train(svi, train_loader), rgbd_pvae_train.py lines 100-111.             *)
(* `losses` is the loss svi.step would return for each minibatch.  The     *)
(* svi.step call sits inside the `if torch.cuda.is_available()` block.     *)
(***************************************************************************)
RECURSIVE train_loop(_, _, _)
train_loop(cuda, losses, acc) ==
    IF losses = <<>> THEN acc
    ELSE train_loop(cuda, Tail(losses),
            IF cuda
            THEN [epoch_loss |-> FAdd(acc.epoch_loss, Head(losses)),
                  steps |-> acc.steps + 1]
            ELSE acc)

train(cuda, losses, loader) ==
    LET r == train_loop(cuda, losses, [epoch_loss |-> Fin(0, 1), steps |-> 0])
    IN  [total |-> FDiv(r.epoch_loss, loader.dataset_len), steps |-> r.steps]

(***************************************************************************)
(* evaluate(svi, test_loader), lines 114-125: svi.evaluate_loss runs for   *)
(* every minibatch, outside the cuda block.                                *)
(***************************************************************************)
RECURSIVE evaluate_loop(_, _)
evaluate_loop(losses, test_loss) ==
    IF losses = <<>> THEN test_loss
    ELSE evaluate_loop(Tail(losses), FAdd(test_loss, Head(losses)))

evaluate(losses, loader) ==
    FDiv(evaluate_loop(losses, Fin(0, 1)), loader.dataset_len)

\* the instability test with its threshold off by one: `< -1`
IsNegativeBelowMinusOne(l) == FLt(l, Fin(0 - 1, 1))

\* `total_epoch_loss_test < 0`, line 168
IsNegative(l) == FLt(l, Fin(0, 1))

\* the improvement test with `<=` in place of `<`
ImprovesOrEqual(l, b) == FLt(l, b) \/ l = b

\* `total_epoch_loss_test < best`, line 173
Improves(l, b) == FLt(l, b)

\* one forward pass through the BatchNorm2d layers: in training mode the
\* running statistics (and num_batches_tracked) are updated, in eval mode not
BatchNormForward(mode, tracked) == IF mode = "train" THEN tracked + 1 ELSE tracked

\* vae.state_dict(): parameters and buffers
state_dict == [params |-> param_updates, num_batches_tracked |-> num_batches_tracked]

\* the end of the loop body: next value of range(NUM_EPOCHS), or loop exit
NextEpoch ==
    /\ epoch' = epoch + 1
    /\ pc' = IF epoch + 1 < NUM_EPOCHS THEN "train" ELSE "finished"

(***************************************************************************)
(* State after lines 128-154.                                              *)
(***************************************************************************)
DriverInit ==
    /\ cuda_available \in BOOLEAN
    /\ train_loader \in {Loader(b) : b \in 1..MaxBatches}
    /\ test_loader \in {Loader(b) : b \in 1..MaxBatches}
    /\ epoch = 0
    /\ pc = "train"
    /\ vae_mode = "train"
    /\ param_updates = 0
    /\ optim_steps = 0
    /\ num_batches_tracked = 0
    /\ best = PInf
    /\ total_epoch_loss_train = Fin(0, 1)
    /\ total_epoch_loss_test = Fin(0, 1)
    /\ test_elbo = <<>>
    /\ optimizer_file = NoFile
    /\ weights_file = NoFile

\* lines 157-161: one training epoch, then the evaluation cadence test
Train ==
    /\ pc = "train"
    /\ epoch < MaxEpoch
    /\ \E losses \in [1..train_loader.batches -> StepLosses] :
         LET r == train(cuda_available, losses, train_loader) IN
         /\ total_epoch_loss_train' = r.total
         /\ param_updates' = param_updates + r.steps
         /\ optim_steps' = optim_steps + r.steps
         /\ num_batches_tracked' =
              IF vae_mode = "train" THEN num_batches_tracked + r.steps
              ELSE num_batches_tracked
    /\ IF epoch % TEST_FREQUENCY = 0
       THEN pc' = "eval" /\ epoch' = epoch
       ELSE NextEpoch
    /\ UNCHANGED <<cuda_available, train_loader, test_loader, vae_mode, best,
                   total_epoch_loss_test, test_elbo, optimizer_file,
                   weights_file, net>>

\* lines 162-166: vae.eval(); evaluate; vae.train(); test_elbo.append
Evaluate ==
    /\ pc = "eval"
    /\ \E losses \in [1..test_loader.batches -> EvalLosses] :
         LET l == evaluate(losses, test_loader) IN
         /\ total_epoch_loss_test' = l
         /\ test_elbo' = Append(test_elbo, FNeg(l))
    /\ num_batches_tracked' = BatchNormForward("eval", num_batches_tracked)
    /\ vae_mode' = "train"
    /\ pc' = "check"
    /\ UNCHANGED <<cuda_available, train_loader, test_loader, epoch,
                   param_updates, optim_steps, best, total_epoch_loss_train,
                   optimizer_file, weights_file, net>>

\* lines 168-170: negative loss, print and break
InstabilityAbort ==
    /\ pc = "check"
    /\ IsNegative(total_epoch_loss_test)
    /\ pc' = "aborted"
    /\ UNCHANGED <<cuda_available, train_loader, test_loader, epoch, vae_mode,
                   param_updates, optim_steps, num_batches_tracked, best,
                   total_epoch_loss_train, total_epoch_loss_test, test_elbo,
                   optimizer_file, weights_file, net>>

\* lines 173-175: the loss improves on best; best is updated before the writes
BeginSave ==
    /\ pc = "check"
    /\ ~IsNegative(total_epoch_loss_test)
    /\ Improves(total_epoch_loss_test, best)
    /\ best' = total_epoch_loss_test
    /\ pc' = "save"
    /\ UNCHANGED <<cuda_available, train_loader, test_loader, epoch, vae_mode,
                   param_updates, optim_steps, num_batches_tracked,
                   total_epoch_loss_train, total_epoch_loss_test, test_elbo,
                   optimizer_file, weights_file, net>>

\* line 173 false: nothing is saved
SkipSave ==
    /\ pc = "check"
    /\ ~IsNegative(total_epoch_loss_test)
    /\ ~Improves(total_epoch_loss_test, best)
    /\ pc' = "viz"
    /\ UNCHANGED <<cuda_available, train_loader, test_loader, epoch, vae_mode,
                   param_updates, optim_steps, num_batches_tracked, best,
                   total_epoch_loss_train, total_epoch_loss_test, test_elbo,
                   optimizer_file, weights_file, net>>

\* outcomes of the two writes of lines 176-177
SaveOutcomes == {"ok", "optimizer_save_fails", "torch_save_fails"}

\* lines 176-177: optimizer.save, then torch.save; neither is guarded, so an
\* exception of either leaves the loop and ends the script
WriteCheckpoint ==
    /\ pc = "save"
    /\ \E outcome \in SaveOutcomes :
         /\ optimizer_file' =
              IF outcome = "optimizer_save_fails" THEN optimizer_file
              ELSE [present |-> TRUE, epoch |-> epoch,
                    loss |-> total_epoch_loss_test, state |-> optim_steps]
         /\ weights_file' =
              IF outcome = "ok"
              THEN [present |-> TRUE, epoch |-> epoch,
                    loss |-> total_epoch_loss_test, state |-> state_dict]
              ELSE weights_file
         /\ pc' = IF outcome = "ok" THEN "viz" ELSE "crashed"
    /\ UNCHANGED <<cuda_available, train_loader, test_loader, epoch, vae_mode,
                   param_updates, optim_steps, num_batches_tracked, best,
                   total_epoch_loss_train, total_epoch_loss_test, test_elbo,
                   net>>

\* outcomes of the plotting calls of lines 180-188
VizOutcomes == {"ok", "imshow_input_fails", "savefig_fails"}

\* lines 179-188: plot the input, move it to the GPU unconditionally,
\* vae.reconstruct (a forward pass of encoder and decoder in the mode the
\* driver left the network in), plot and save the figure
Visualize ==
    /\ pc = "viz"
    /\ \E outcome \in VizOutcomes :
         LET reached_reconstruct ==
                 outcome # "imshow_input_fails" /\ cuda_available
         IN
         /\ num_batches_tracked' =
              IF reached_reconstruct
              THEN BatchNormForward(vae_mode, num_batches_tracked)
              ELSE num_batches_tracked
         /\ IF outcome = "ok" /\ cuda_available
            THEN NextEpoch
            ELSE pc' = "crashed" /\ epoch' = epoch
    /\ UNCHANGED <<cuda_available, train_loader, test_loader, vae_mode,
                   param_updates, optim_steps, best, total_epoch_loss_train,
                   total_epoch_loss_test, test_elbo, optimizer_file,
                   weights_file, net>>

(***************************************************************************)
(* Tensor shapes and the layers of torch.nn that change them.  A shape is  *)
(* the tuple of dimensions; ShapeError stands for the RuntimeError torch   *)
(* raises on a mismatch, after which the forward pass does not continue.   *)
(***************************************************************************)
ShapeError == <<>>

\* spatial size after Conv2d: floor((size + 2*padding - kernel) / stride) + 1
ConvOut(size, k, p, s) == ((size + 2 * p - k) \div s) + 1

\* spatial size after ConvTranspose2d (padding 0): (size - 1)*stride + kernel
ConvTransposeOut(size, k, s) == (size - 1) * s + k

Conv2d(t, cin, cout, k, p, s) ==
    IF Len(t) # 4 THEN ShapeError
    ELSE IF t[2] # cin \/ t[3] + 2 * p < k \/ t[4] + 2 * p < k THEN ShapeError
    ELSE <<t[1], cout, ConvOut(t[3], k, p, s), ConvOut(t[4], k, p, s)>>

ConvTranspose2d(t, cin, cout, k, s) ==
    IF Len(t) # 4 THEN ShapeError
    ELSE IF t[2] # cin THEN ShapeError
    ELSE <<t[1], cout, ConvTransposeOut(t[3], k, s), ConvTransposeOut(t[4], k, s)>>

UpsamplingNearest2d(t, scale) ==
    IF Len(t) # 4 THEN ShapeError
    ELSE <<t[1], t[2], t[3] * scale, t[4] * scale>>

BatchNorm2d(t, c) ==
    IF Len(t) # 4 THEN ShapeError
    ELSE IF t[2] # c THEN ShapeError
    ELSE t

Linear(t, in_features, out_features) ==
    IF Len(t) = 0 THEN ShapeError
    ELSE IF t[Len(t)] # in_features THEN ShapeError
    ELSE [t EXCEPT ![Len(t)] = out_features]

RECURSIVE Numel(_)
Numel(t) == IF t = <<>> THEN 1 ELSE Head(t) * Numel(Tail(t))

\* tensor.flatten(start_dim), start_dim counted from 0
Flatten(t, start_dim) ==
    IF Len(t) <= start_dim THEN t
    ELSE SubSeq(t, 1, start_dim) \o <<Numel(SubSeq(t, start_dim + 1, Len(t)))>>

\* tensor.view(n, -1, h, w)
ViewInfer(t, n, h, w) ==
    IF Len(t) = 0 THEN ShapeError
    ELSE IF Numel(t) % (n * h * w) # 0 THEN ShapeError
    ELSE <<n, Numel(t) \div (n * h * w), h, w>>

\* tensor.view(n, c, 1, 1)
ViewAs(t, n, c) ==
    IF Len(t) = 0 THEN ShapeError
    ELSE IF Numel(t) # n * c THEN ShapeError
    ELSE <<n, c, 1, 1>>

\* params[:, :, i] on a 3-dimensional tensor
SelectLast(t) == IF Len(t) # 3 THEN ShapeError ELSE <<t[1], t[2]>>

\* rgbd_vae.py ResBlock: optional 1x1 projection, two 3x3 convolutions, skip sum
ResBlock(t, cin, cout) ==
    LET x == IF cin # cout THEN Conv2d(t, cin, cout, 1, 0, 1) ELSE t
        c == Conv2d(Conv2d(x, cin, cout, 3, 1, 1), cin, cout, 3, 1, 1)
    IN  IF c = x THEN c ELSE ShapeError

\* one entry of a layer list applied to a shape; InstanceNorm2d, the
\* activations and the sigmoid keep the shape
ApplyLayer(l, t) ==
    IF t = ShapeError THEN ShapeError
    ELSE CASE l.op = "ConvBnAct" ->
                BatchNorm2d(Conv2d(t, l.cin, l.cout, l.k, l.p, l.s), l.cout)
           [] l.op = "ConvInAct" -> Conv2d(t, l.cin, l.cout, l.k, l.p, l.s)
           [] l.op = "UpConvBnAct" ->
                BatchNorm2d(Conv2d(UpsamplingNearest2d(t, l.scale),
                                   l.cin, l.cout, l.k, l.p, 1), l.cout)
           [] l.op = "ConvTInAct" -> ConvTranspose2d(t, l.cin, l.cout, l.k, l.s)
           [] l.op = "ResBlock" -> ResBlock(t, l.cin, l.cout)
           [] l.op = "Flatten" -> Flatten(t, l.start_dim)
           [] l.op = "Linear" -> Linear(t, l.cin, l.cout)
           [] l.op = "ViewInfer" -> ViewInfer(t, t[1], l.h, l.w)
           [] l.op = "ViewAs" -> IF Len(t) = 2 THEN ViewAs(t, t[1], t[2])
                                 ELSE ShapeError
           [] OTHER -> t

Conv(op, cin, cout, k, p, s) ==
    [op |-> op, cin |-> cin, cout |-> cout, k |-> k, p |-> p, s |-> s]

(***************************************************************************)
(* rgbd_pvae_train.py Encoder (lines 17-38) and Decoder (lines 41-60).     *)
(***************************************************************************)
Z_DIM == 400

EncoderDepths == <<4, 32, 64, 128, 256, 512>>
DecoderDepths == <<512, 256, 128, 64, 32, 4>>

\* self.convs, then flatten(1); the two heads follow in EncoderHeads
EncoderLayers ==
    [i \in 1..5 |-> Conv("ConvBnAct", EncoderDepths[i], EncoderDepths[i + 1], 4, 1, 2)]
    \o <<[op |-> "Flatten", start_dim |-> 1]>>

\* fc1 and fc2 on the flattened features
EncoderHeads(conv_out, z_dim) ==
    [mu |-> Linear(conv_out, EncoderDepths[6] * 4 * 4, z_dim),
     log_var |-> Linear(conv_out, EncoderDepths[6] * 4 * 4, z_dim)]

\* fc, view(N, -1, 4, 4), self.convs, sigmoid
DecoderLayers(z_dim) ==
    <<[op |-> "Linear", cin |-> z_dim, cout |-> DecoderDepths[1] * 4 * 4],
      [op |-> "ViewInfer", h |-> 4, w |-> 4]>>
    \o [i \in 1..5 |->
          [op |-> "UpConvBnAct", scale |-> 2, cin |-> DecoderDepths[i],
           cout |-> DecoderDepths[i + 1], k |-> 3, p |-> 1]]
    \o <<[op |-> "Sigmoid"]>>

(***************************************************************************)
(* rgbd_vae.py Encoder (lines 35-63) and Decoder (lines 65-94).            *)
(***************************************************************************)
VaeZDim == 300

VaeEncoderDepths == <<64, 76, 88, 100, 128, 200>>
VaeDecoderDepths == <<200, 128, 100, 88, 76, 64>>

\* conv1, convs, res_blocks, conv2, conv3, flatten(2), fc
VaeEncoderLayers ==
    <<Conv("ConvInAct", 4, 64, 3, 1, 1)>>
    \o [i \in 1..5 |->
          Conv("ConvInAct", VaeEncoderDepths[i], VaeEncoderDepths[i + 1], 3, 1, 2)]
    \o <<[op |-> "ResBlock", cin |-> VaeEncoderDepths[6], cout |-> VaeEncoderDepths[6]],
         [op |-> "ResBlock", cin |-> VaeEncoderDepths[6], cout |-> VaeEncoderDepths[6]],
         Conv("ConvInAct", 200, 250, 3, 1, 2),
         Conv("ConvInAct", 250, 300, 3, 1, 2),
         [op |-> "Flatten", start_dim |-> 2],
         [op |-> "Linear", cin |-> 4, cout |-> 2]>>

\* guide, lines 123-125: mu = params[:, :, 0], log_var = params[:, :, 1]
VaeGuideSplit(params) ==
    [mu |-> IF Len(params) = 3 /\ params[3] >= 1 THEN SelectLast(params)
            ELSE ShapeError,
     log_var |-> IF Len(params) = 3 /\ params[3] >= 2 THEN SelectLast(params)
                 ELSE ShapeError]

ConvT(cin, cout, k, s) ==
    [op |-> "ConvTInAct", cin |-> cin, cout |-> cout, k |-> k, s |-> s]

\* view(N, D, 1, 1), conv1, conv2, res_blocks, convs, conv3, sigmoid
VaeDecoderLayers ==
    <<[op |-> "ViewAs"], ConvT(300, 250, 4, 1), ConvT(250, 200, 3, 1),
      [op |-> "ResBlock", cin |-> VaeDecoderDepths[1], cout |-> VaeDecoderDepths[1]],
      [op |-> "ResBlock", cin |-> VaeDecoderDepths[1], cout |-> VaeDecoderDepths[1]]>>
    \o [i \in 1..2 |-> ConvT(VaeDecoderDepths[i], VaeDecoderDepths[i + 1], 3, 2)]
    \o [i \in 1..3 |-> ConvT(VaeDecoderDepths[i + 2], VaeDecoderDepths[i + 3], 2, 2)]
    \o <<Conv("ConvInAct", 64, 4, 3, 1, 1), [op |-> "Sigmoid"]>>

(***************************************************************************)
(* VAE.model: the "obs" sample site.  rgbd_pvae_train.py (lines 82-83)     *)
(* binds the decoder output to x_means; rgbd_vae.py (lines 116-117)        *)
(* rebinds x to the decoder output before the site is created.             *)
(***************************************************************************)
model_obs(x, decoded) ==
    LET x_means == decoded
    IN  [bernoulli |-> x_means, obs |-> x]

vae_model_obs(x0, decoded) ==
    LET x == decoded
    IN  [bernoulli |-> x, obs |-> x]

(***************************************************************************)
(* SpecNet: VAE.guide and VAE.model of either file on a minibatch x.       *)
(***************************************************************************)
Files == {"rgbd_pvae_train", "rgbd_vae"}
\* image contents (the pixel values do not matter, their identity does)
Data == {"img_a", "img_b"}
\* spatial sizes of the images the loader may deliver
InputSizes == {128, 216}

ZDims(file) == IF file = "rgbd_pvae_train" THEN {16, Z_DIM} ELSE {VaeZDim}

EncoderOf(file) == IF file = "rgbd_pvae_train" THEN EncoderLayers ELSE VaeEncoderLayers

DecoderOf(file, z_dim) ==
    IF file = "rgbd_pvae_train" THEN DecoderLayers(z_dim) ELSE VaeDecoderLayers

NetIdle == [fn |-> "none"]

NetInit ==
    \E file \in Files, fn \in {"guide", "model"}, n \in 1..MaxN,
       size \in InputSizes, d \in Data :
      \E z_dim \in ZDims(file) :
        net = [fn |-> fn, file |-> file, stage |-> "forward", layer |-> 0,
               z_dim |-> z_dim,
               x |-> [data |-> d, shape |-> <<n, 4, size, size>>],
               t |-> IF fn = "guide" THEN <<n, 4, size, size>> ELSE <<n, z_dim>>,
               latent |-> [mu |-> ShapeError, log_var |-> ShapeError],
               site |-> [bernoulli |-> [data |-> d, shape |-> ShapeError],
                         obs |-> [data |-> d, shape |-> ShapeError]]]

\* guide: the next layer of self.encoder
GuideEncoderLayer ==
    /\ net.fn = "guide" /\ net.stage = "forward"
    /\ net.t # ShapeError
    /\ net.layer < Len(EncoderOf(net.file))
    /\ net' = [net EXCEPT !.layer = @ + 1,
                          !.t = ApplyLayer(EncoderOf(net.file)[net.layer + 1], net.t)]
    /\ UNCHANGED driver_vars

\* guide: mu and log-variance of the "latent" site
GuideLatent ==
    /\ net.fn = "guide" /\ net.stage = "forward"
    /\ net.t # ShapeError
    /\ net.layer = Len(EncoderOf(net.file))
    /\ LET l == IF net.file = "rgbd_pvae_train"
                THEN EncoderHeads(net.t, net.z_dim)
                ELSE VaeGuideSplit(net.t)
       IN  net' = [net EXCEPT !.latent = l,
                              !.stage = IF l.mu = ShapeError \/ l.log_var = ShapeError
                                        THEN "raised" ELSE "sampled"]
    /\ UNCHANGED driver_vars

\* model: the next layer of self.decoder on z of shape (N, z_dim)
ModelDecoderLayer ==
    /\ net.fn = "model" /\ net.stage = "forward"
    /\ net.t # ShapeError
    /\ net.layer < Len(DecoderOf(net.file, net.z_dim))
    /\ net' = [net EXCEPT !.layer = @ + 1,
                          !.t = ApplyLayer(DecoderOf(net.file, net.z_dim)[net.layer + 1],
                                           net.t)]
    /\ UNCHANGED driver_vars

\* model: the "obs" site on the decoder output
ModelObserve ==
    /\ net.fn = "model" /\ net.stage = "forward"
    /\ net.t # ShapeError
    /\ net.layer = Len(DecoderOf(net.file, net.z_dim))
    /\ \E d \in Data :
         LET decoded == [data |-> d, shape |-> net.t] IN
         net' = [net EXCEPT !.stage = "observed",
                            !.site = IF net.file = "rgbd_pvae_train"
                                     THEN model_obs(net.x, decoded)
                                     ELSE vae_model_obs(net.x, decoded)]
    /\ UNCHANGED driver_vars

Init == DriverInit /\ net = NetIdle

Next ==
    \/ Train
    \/ Evaluate
    \/ InstabilityAbort
    \/ BeginSave
    \/ SkipSave
    \/ WriteCheckpoint
    \/ Visualize

Spec == Init /\ [][Next]_vars

InitNet == DriverInit /\ cuda_available /\ train_loader = Loader(1)
           /\ test_loader = Loader(1) /\ NetInit

NextNet ==
    \/ GuideEncoderLayer
    \/ GuideLatent
    \/ ModelDecoderLayer
    \/ ModelObserve

SpecNet == InitNet /\ [][NextNet]_vars

(***************************************************************************)
(* Vocabulary of the properties.                                           *)
(***************************************************************************)
\* the loss of the i-th evaluation, read back from test_elbo
LossAt(i) == FNeg(test_elbo[i])

Negative(l) == l.k = "ninf" \/ (l.k = "fin" /\ l.num < 0)
NonNegative(l) == l.k = "pinf" \/ (l.k = "fin" /\ l.num >= 0)
NonFinite(l) == l.k \in {"nan", "pinf", "ninf"}

\* evaluations whose loss the save decision of lines 168-177 has dealt with
Decided == IF pc = "check" THEN Len(test_elbo) - 1 ELSE Len(test_elbo)

\* b is the lowest non-negative loss among the decided evaluations
LowestDecided(b) ==
    /\ \A i \in 1..Decided : NonNegative(LossAt(i)) => ~FLt(LossAt(i), b)
    /\ b = PInf \/ \E i \in 1..Decided : LossAt(i) = b

\* b is the lowest loss among the decided evaluations
LowestSeen(b) ==
    /\ \A i \in 1..Decided : ~FLt(LossAt(i), b)
    /\ b = PInf \/ \E i \in 1..Decided : LossAt(i) = b

\* index in test_elbo of the evaluation run in epoch e
EvalIndex(e) == (e \div TEST_FREQUENCY) + 1

\* both files hold the checkpoint written at the first evaluation that
\* reached the loss `best`
CheckpointIsBest ==
    /\ optimizer_file.present /\ weights_file.present
    /\ optimizer_file.epoch = weights_file.epoch
    /\ optimizer_file.loss = best /\ weights_file.loss = best
    /\ EvalIndex(weights_file.epoch) \in 1..Decided
    /\ LossAt(EvalIndex(weights_file.epoch)) = best
    /\ \A j \in 1..(EvalIndex(weights_file.epoch) - 1) : FLt(best, LossAt(j))
                                                         \/ ~NonNegative(LossAt(j))

\* a file on disk never holds a loss below the watermark
FileNotBelowBest(f) == f.present => NonNegative(f.loss) /\ ~FLt(f.loss, best)

C1_SaveDecision ==
    /\ (pc = "check" /\ pc' # "check") =>
          ((pc' = "save") <=> (/\ ~Negative(total_epoch_loss_test)
                               /\ FLt(total_epoch_loss_test, best)))
    /\ (optimizer_file' # optimizer_file \/ weights_file' # weights_file) =>
          pc = "save"
    /\ best' # best => pc = "check" /\ pc' = "save" /\ best' = total_epoch_loss_test

C1_Stored ==
    /\ LowestDecided(best)
    /\ FileNotBelowBest(optimizer_file) /\ FileNotBelowBest(weights_file)
    /\ pc \notin {"save", "crashed"} =>
          IF best = PInf
          THEN ~optimizer_file.present /\ ~weights_file.present
          ELSE CheckpointIsBest

C2_AbortStep ==
    /\ (pc = "check" /\ Negative(total_epoch_loss_test)) =>
          /\ pc' \in {"check", "aborted"}
          /\ UNCHANGED <<best, optimizer_file, weights_file, epoch,
                         param_updates, optim_steps, num_batches_tracked,
                         test_elbo>>
    /\ pc = "aborted" => UNCHANGED vars

C2_NegativeAborts == [][C2_AbortStep]_vars

\* the loop has been left on a negative loss of the second evaluation
C2_Witness ==
    /\ pc = "aborted" /\ epoch = TEST_FREQUENCY
    /\ Negative(total_epoch_loss_test)
    /\ weights_file.present /\ weights_file.epoch = 0

(***************************************************************************)
(* C3: an evaluation with a non-finite loss (NaN, +infinity, -infinity)    *)
(* ends the loop at once and is never followed by another epoch.           *)
(***************************************************************************)
C3_NonFiniteAborts ==
    [][(pc = "check" /\ NonFinite(total_epoch_loss_test)) =>
          pc' \in {"check", "aborted"}]_vars

(***************************************************************************)
(* C4: in every epoch train() invokes the SVI step once per minibatch of   *)
(* the training loader, whether or not CUDA is available.                  *)
(***************************************************************************)
C4_StepPerMinibatch ==
    [][(pc = "train" /\ (pc' # "train" \/ epoch' # epoch)) =>
          optim_steps' = optim_steps + train_loader.batches]_vars

(***************************************************************************)
(* C6: the visualization after an evaluation leaves the parameters, the    *)
(* running statistics, the optimizer state, the mode and best unchanged.   *)
(***************************************************************************)
C6_VisualizationPure ==
    [][pc = "viz" => UNCHANGED <<param_updates, num_batches_tracked,
                                 optim_steps, vae_mode, best>>]_vars

(***************************************************************************)
(* C7: a failing checkpoint write does not end the training loop.          *)
(***************************************************************************)
C7_SaveFailureContinues == [][pc = "save" => pc' # "crashed"]_vars

(***************************************************************************)
(* C8: a failing visualization step does not end the training loop.        *)
(***************************************************************************)
C8_VizFailureContinues == [][pc = "viz" => pc' # "crashed"]_vars

(***************************************************************************)
(* C5: the value observed at the "obs" site of VAE.model(x) is the input   *)
(* x, never the decoder output.                                            *)
(***************************************************************************)
C5_ObservesInput ==
    (net.fn = "model" /\ net.stage = "observed") => net.site.obs = net.x

(***************************************************************************)
(* C9: for a latent batch (N, D) the decoder returns (N, 4, 216, 216).     *)
(***************************************************************************)
C9_DecoderShape ==
    (net.fn = "model" /\ net.stage = "forward") =>
        /\ net.t # ShapeError
        /\ net.layer = Len(DecoderOf(net.file, net.z_dim)) =>
              net.t = <<net.x.shape[1], 4, 216, 216>>

(***************************************************************************)
(* C10: for an image batch (N, 4, 216, 216) the encoder yields mu and      *)
(* log-variance of shape (N, D) each, without a shape error.               *)
(***************************************************************************)
C10_EncoderShape ==
    (net.fn = "guide" /\ net.x.shape[3] = 216) =>
        /\ net.t # ShapeError
        /\ net.stage # "raised"
        /\ net.stage = "sampled" =>
              /\ net.latent.mu = <<net.x.shape[1], net.z_dim>>
              /\ net.latent.log_var = <<net.x.shape[1], net.z_dim>>
====
